---------------------------- MODULE Spec2Model ----------------------------
(***************************************************************************)
(* The versioned address store of toronto-addresses-import: the SQLite     *)
(* schema of src/db.py (snapshots, addresses), the ingest import_geojson   *)
(* with its transaction, the read-only queries, the diff engine            *)
(* compute_diff of src/diff.py and the raw comparison of                   *)
(* src/verify_diff.py.                                                     *)
(*                                                                         *)
(* A JSON / Python / SQL value is a tagged record: None (Python None, SQL  *)
(* NULL, JSON null), JInt(n), JStr(s), JFloat(u) with u in micro-degrees   *)
(* (coordinates are the only floats; 1 degree = Micro units, so that       *)
(* round(x, 5) is rounding to a multiple of 10 units).                     *)
(***************************************************************************)
EXTENDS Integers, Sequences, FiniteSets, TLC

\* Bounds of the model.
MaxSnapshots == 3       \* snapshot ids (AUTOINCREMENT) are capped here
MaxRows == 2            \* lines of an input file

None == [t |-> "none"]
JInt(n) == [t |-> "int", n |-> n]
JStr(s) == [t |-> "str", s |-> s]
JFloat(u) == [t |-> "float", u |-> u]
Raised(exc) == [t |-> "raised", exc |-> exc]

\* round(lon_raw, 5) keeps this many decimals; the model resolves one more.
ROUND_DIGITS == 5
Micro == 10 ^ (ROUND_DIGITS + 1)

---------------------------------------------------------------------------
(* Columns *)

TRACKED_COLUMNS ==
    << "ADDRESS_POINT_ID", "ADDRESS_FULL", "ADDRESS_NUMBER", "LO_NUM",
       "LO_NUM_SUF", "HI_NUM", "HI_NUM_SUF", "LINEAR_NAME_FULL",
       "LINEAR_NAME", "LINEAR_NAME_TYPE", "LINEAR_NAME_DIR",
       "MUNICIPALITY_NAME", "WARD_NAME" >>

GEO_COLUMNS == << "LONGITUDE", "LATITUDE" >>

\* str.lower() on the column names the program uses.
Lower(c) ==
    CASE c = "ADDRESS_POINT_ID" -> "address_point_id"
      [] c = "ADDRESS_FULL" -> "address_full"
      [] c = "ADDRESS_NUMBER" -> "address_number"
      [] c = "LO_NUM" -> "lo_num"
      [] c = "LO_NUM_SUF" -> "lo_num_suf"
      [] c = "HI_NUM" -> "hi_num"
      [] c = "HI_NUM_SUF" -> "hi_num_suf"
      [] c = "LINEAR_NAME_FULL" -> "linear_name_full"
      [] c = "LINEAR_NAME" -> "linear_name"
      [] c = "LINEAR_NAME_TYPE" -> "linear_name_type"
      [] c = "LINEAR_NAME_DIR" -> "linear_name_dir"
      [] c = "MUNICIPALITY_NAME" -> "municipality_name"
      [] c = "WARD_NAME" -> "ward_name"
      [] c = "LONGITUDE" -> "longitude"
      [] c = "LATITUDE" -> "latitude"

\* col_names of import_geojson: the tracked columns, the coordinates, extra.
col_names ==
    [i \in 1..Len(TRACKED_COLUMNS) |-> Lower(TRACKED_COLUMNS[i])]
        \o << "longitude", "latitude", "extra" >>

\* compare_cols = col_names[1:]: every staged column but address_point_id.
compare_cols == Tail(col_names)

SeqToSet(s) == {s[i] : i \in 1..Len(s)}

\* The columns of compare_cols, as a set.
CompareColumns == SeqToSet(compare_cols)

\* COMPARE_COLUMNS of src/diff.py.
COMPARE_COLUMNS ==
    << "address_full", "address_number", "lo_num", "lo_num_suf", "hi_num",
       "hi_num_suf", "linear_name_full", "linear_name", "linear_name_type",
       "linear_name_dir", "municipality_name", "ward_name", "longitude",
       "latitude" >>

\* a == 0 of Python.
EqualsZero(a) == (a.t = "int" /\ a.n = 0) \/ (a.t = "float" /\ a.u = 0)

\* a or b of Python: b when a is None, "", 0 or 0.0.
PyOr(a, b) == IF a = None \/ a = JStr("") \/ EqualsZero(a) THEN b ELSE a

---------------------------------------------------------------------------
(* Record parser: lines 87-108 and 170-218 of src/db.py *)

\* float(val) for the strings of the model; a string outside this table is
\* not numeric (ValueError).
NumericStrings == ("1" :> 1 * Micro) @@ ("2" :> 2 * Micro) @@ ("2.7" :> 2700000)

\* float(val): [ok, u]; ok is FALSE for ValueError / TypeError.
ToFloat(val) ==
    CASE val.t = "int" -> [ok |-> TRUE, u |-> val.n * Micro]
      [] val.t = "float" -> [ok |-> TRUE, u |-> val.u]
      [] val.t = "str" ->
            IF val.s \in DOMAIN NumericStrings
            THEN [ok |-> TRUE, u |-> NumericStrings[val.s]]
            ELSE [ok |-> FALSE, u |-> 0]
      [] OTHER -> [ok |-> FALSE, u |-> 0]

\* int(x) of a float: truncation toward zero.
Trunc(u) == IF u >= 0 THEN u \div Micro ELSE -((-u) \div Micro)

IsNullToken(val) == val = None \/ val = JStr("") \/ val = JStr("None")

_parse_int(val) ==
    IF IsNullToken(val) THEN None
    ELSE IF ToFloat(val).ok THEN JInt(Trunc(ToFloat(val).u)) ELSE None

_parse_float(val) ==
    IF IsNullToken(val) THEN None
    ELSE IF ToFloat(val).ok THEN JFloat(ToFloat(val).u) ELSE None

RECURSIVE Pad(_, _)
\* n in decimal, zero-padded to width digits.
Pad(n, width) ==
    IF width = 0 THEN "" ELSE Pad(n \div 10, width - 1) \o ToString(n % 10)

RECURSIVE Fraction(_, _)
\* The decimals of a float's repr: no trailing zero, but one digit at least.
Fraction(f, width) ==
    IF width > 1 /\ f % 10 = 0 THEN Fraction(f \div 10, width - 1) ELSE Pad(f, width)

\* str(x) of a float: its shortest repr, as in "-79.38318" or "181.0".
FloatStr(u) ==
    LET m == IF u < 0 THEN -u ELSE u
    IN (IF u < 0 THEN "-" ELSE "") \o ToString(m \div Micro) \o "."
          \o Fraction(m % Micro, ROUND_DIGITS + 1)

\* str(val) for the values of the model.
PyStr(val) ==
    CASE val.t = "str" -> val.s
      [] val.t = "int" -> ToString(val.n)
      [] val.t = "float" -> FloatStr(val.u)
      [] val.t = "none" -> "None"
      [] OTHER -> "?"

\* Mutant: the token "None" is kept as a string.
_clean_str_KeepsToken(val) ==
    IF val = None \/ val = JStr("") THEN None ELSE JStr(PyStr(val))

_clean_str(val) == IF IsNullToken(val) THEN None ELSE JStr(PyStr(val))

\* round(x, 5) on a coordinate in micro-degrees (the inputs of the model
\* are no ties, which a binary float does not hold exactly anyway).
Round5(u) == IF u >= 0 THEN ((u + 5) \div 10) * 10 ELSE -(((-u) + 5) \div 10) * 10

\* dict.get(k): the value, None when the key is absent.
Get(props, k) == IF k \in DOMAIN props THEN props[k] ELSE None

IntColumns == {"ADDRESS_POINT_ID", "LO_NUM", "HI_NUM"}

EmptyDict == [k \in {} |-> None]

\* coords of lines 183-185: the coordinate list of the geometry, or its
\* first element when that is a list itself ([t |-> "list", items |-> ...]).
\* For a geometry that is null the code raises instead (NullGeometry below).
Coords(feat) ==
    LET geometry == IF "geometry" \in DOMAIN feat THEN feat.geometry ELSE EmptyDict
        c == IF "coordinates" \in DOMAIN geometry THEN geometry.coordinates ELSE << >>
    IN IF c # << >> /\ c[1].t = "list" THEN c[1].items ELSE c

\* lon / lat of lines 187-190.
Coordinate(coords, i) ==
    IF Len(coords) >= i
    THEN LET raw == _parse_float(coords[i])
         IN IF raw = None THEN None ELSE JFloat(Round5(raw.u))
    ELSE None

\* extra of lines 211-213: the untracked, non-null properties under their
\* sorted keys, as JSON text (None when there is none).
Extra(props) ==
    LET extra_keys == (DOMAIN props \ SeqToSet(TRACKED_COLUMNS)) \ {"_id"}
        kept == {k \in extra_keys : Get(props, k) # None}
    IN IF kept = {} THEN None
       ELSE [t |-> "text", json |-> [k \in kept |-> props[k]]]

\* vals of lines 192-213 as a row of the staging table.
ParseFeature(feat) ==
    LET props == feat.properties
        coords == Coords(feat)
        tracked == [c \in SeqToSet(TRACKED_COLUMNS) |->
                      IF c \in IntColumns THEN _parse_int(Get(props, c))
                      ELSE _clean_str(Get(props, c))]
    IN [c \in SeqToSet(col_names) |->
          CASE c = "longitude" -> Coordinate(coords, 1)
            [] c = "latitude" -> Coordinate(coords, 2)
            [] c = "extra" -> Extra(props)
            [] OTHER -> tracked[CHOOSE C \in SeqToSet(TRACKED_COLUMNS) : Lower(C) = c]]

\* A line of the file: kind "other" holds no '"type": "Feature"', kind
\* "malformed" does not decode (JSONDecodeError), kind "feature" decodes.
\* A line yields a row unless it is skipped (lines 173-180, 215).
LineYieldsRow(line) ==
    /\ line.kind = "feature"
    /\ ParseFeature(line.feat)["address_point_id"] # None

RECURSIVE StagedRows(_)
\* The rows import_geojson stages for a file, in file order.
StagedRows(file) ==
    IF file = << >> THEN << >>
    ELSE (IF LineYieldsRow(Head(file)) THEN << ParseFeature(Head(file).feat) >> ELSE << >>)
            \o StagedRows(Tail(file))

---------------------------------------------------------------------------
(* Input files *)

\* One decodable line: a Feature with its property bag and a MultiPoint
\* geometry, as the upstream export writes it.
Feature(id, ward, objectid) ==
    [kind |-> "feature",
     feat |-> [properties |->
                    ("_id" :> JInt(1)) @@ ("ADDRESS_POINT_ID" :> id)
                 @@ ("ADDRESS_FULL" :> JStr("1 Main St")) @@ ("LO_NUM" :> JInt(1))
                 @@ ("LO_NUM_SUF" :> None) @@ ("LINEAR_NAME_DIR" :> JStr(""))
                 @@ ("WARD_NAME" :> ward) @@ ("OBJECTID" :> objectid),
               geometry |->
                 [coordinates |->
                    << [t |-> "list",
                        items |-> << JFloat(-79383184), JFloat(43653226) >>] >>]]]

\* The lines a file of the model is made of: entity 1 with a tracked field
\* (the ward) of two values and an untracked property present or not,
\* entity 2, and a record without entity key.
Catalogue ==
    << Feature(JInt(1), JStr("A"), None), Feature(JInt(1), JStr("B"), None),
       Feature(JInt(1), JStr("A"), JInt(9)),
       Feature(JInt(2), JStr("A"), None),
       Feature(None, JStr("A"), None) >>

\* A file is a sequence of lines, each named by its place in the catalogue.
Files == UNION {[1..n -> 1..Len(Catalogue)] : n \in 0..MaxRows}

\* A line like Feature(id, ward, None), with HI_NUM and its own coordinates.
FeatureAt(id, ward, hi_num, lon, lat) ==
    [kind |-> "feature",
     feat |-> [properties |->
                    Feature(id, ward, None).feat.properties @@ ("HI_NUM" :> hi_num),
               geometry |->
                 [coordinates |->
                    << [t |-> "list", items |-> << JFloat(lon), JFloat(lat) >>] >>]]]

\* More lines of entity 1, for the files that are diffed: moved by 0.01
\* degree of longitude; ward B with a longitude outside +-180 (a projected
\* value); ward B with HI_NUM 0 where the other lines leave it unset.
DiffCatalogue ==
    << FeatureAt(JInt(1), JStr("A"), None, -79393184, 43653226),
       FeatureAt(JInt(1), JStr("B"), None, 181 * Micro, 43653226),
       FeatureAt(JInt(1), JStr("B"), JInt(0), -79383184, 43653226) >>

\* Every line of the model, by place: the catalogue, then the lines above.
Lines == Catalogue \o DiffCatalogue

\* The files that are diffed: the empty file, a file for each line of
\* entity 1, and entities 1 and 2 together.
DiffFiles ==
    { << >>, << 1, 4 >> } \cup { << i >> : i \in (1..Len(Lines)) \ {4, 5} }

\* The files of the histories that are compared: the empty file, entity 1
\* with ward A, with ward B and moved, entity 2, entities 1 and 2 together,
\* and entity 1 twice, with ward A and with ward B.
HistoryFiles == { << >>, << 1 >>, << 2 >>, << 4 >>, << 6 >>, << 1, 4 >>, << 1, 2 >> }

\* The files of the calls that overlap: the empty file, entity 1 with ward A
\* and with ward B, entity 2, and entities 1 and 2 together. No file holds
\* an entity key twice.
OverlapFiles == { << >>, << 1 >>, << 2 >>, << 4 >>, << 1, 4 >> }

\* A decodable line whose properties hold no ADDRESS_POINT_ID at all.
WithoutKey(line) ==
    LET props == line.feat.properties
    IN [line EXCEPT !.feat.properties =
            [k \in DOMAIN props \ {"ADDRESS_POINT_ID"} |-> props[k]]]

\* Lines that give no row: one without '"type": "Feature"' (the header of
\* the collection), one that is no JSON, a record whose entity key is not
\* numeric, a record without entity key, and a line whose bytes are not
\* UTF-8.
ParseCatalogue ==
    << [kind |-> "other"], [kind |-> "malformed"],
       Feature(JStr("12a"), JStr("A"), None),
       WithoutKey(Feature(JInt(1), JStr("A"), None)),
       [kind |-> "undecodable"] >>

\* The record of entity 1 with the given members next to its properties.
WithGeometry(members) ==
    [kind |-> "feature",
     feat |-> [properties |-> Feature(JInt(1), JStr("A"), None).feat.properties]
                 @@ members]

\* Records of entity 1 by geometry: no geometry member; a geometry without
\* coordinates; empty coordinates; a Point of one number; a MultiPoint whose
\* point has one number; and "geometry": null.
GeometryCatalogue ==
    << WithGeometry(EmptyDict),
       WithGeometry([geometry |-> EmptyDict]),
       WithGeometry([geometry |-> [coordinates |-> << >>]]),
       WithGeometry([geometry |-> [coordinates |-> << JFloat(-79383184) >>]]),
       WithGeometry([geometry |->
            [coordinates |-> << [t |-> "list", items |-> << JFloat(-79383184) >>] >>]]),
       WithGeometry([geometry |-> None]) >>

\* The record of entity 1 (line 1 of the catalogue, where LINEAR_NAME_DIR
\* is "" and LO_NUM_SUF is null) with other forms of these two strings:
\* LINEAR_NAME_DIR "None"; LINEAR_NAME_DIR absent; LINEAR_NAME_DIR null and
\* LO_NUM_SUF "".
StringCatalogue ==
    LET line == Feature(JInt(1), JStr("A"), None)
        props == line.feat.properties
    IN << [line EXCEPT !.feat.properties["LINEAR_NAME_DIR"] = JStr("None")],
          [line EXCEPT !.feat.properties =
              [k \in DOMAIN props \ {"LINEAR_NAME_DIR"} |-> props[k]]],
          [line EXCEPT !.feat.properties["LINEAR_NAME_DIR"] = None,
                       !.feat.properties["LO_NUM_SUF"] = JStr("")] >>

AllLines == Lines \o ParseCatalogue \o GeometryCatalogue \o StringCatalogue

\* The files of one record of entity 1: line 1, its other forms, and the
\* record with another ward; and two files without entity 1, the empty file
\* and the file of entity 2.
StringFiles == { << >>, << 1 >>, << 2 >>, << 4 >>, << 20 >>, << 21 >>, << 22 >> }

\* The files with such lines: among records of entities 1 and 2, alone,
\* and next to the record with a null entity key.
ParseFiles ==
    { << 1 >>, << 1, 4 >>, << 9, 1, 10 >>, << 11, 4 >>, << 12, 2 >>,
      << 5, 10 >>, << 9, 12 >>, << 1, 13 >> }
    \cup { << 4, i >> : i \in 14..19 }

Content(file) == [i \in 1..Len(file) |-> AllLines[file[i]]]

\* open(filepath, "r", encoding="utf-8") and for line in f: the text layer
\* decodes the bytes of the file with errors="strict".
Readable(file) == \A i \in 1..Len(file) : Content(file)[i].kind # "undecodable"

\* feat.get("geometry", {}).get("coordinates", []) of line 183: a geometry
\* member that is null gives None, and None.get raises AttributeError.
NullGeometry(line) ==
    /\ line.kind = "feature"
    /\ "geometry" \in DOMAIN line.feat
    /\ line.feat.geometry = None

\* No line of the file makes the staging loop raise.
Parses(file) == \A i \in 1..Len(file) : ~ NullGeometry(Content(file)[i])

\* StagedRows tabulated over the files of the model.
StagedOf ==
    [file \in Files \cup DiffFiles \cup ParseFiles \cup StringFiles |->
        StagedRows(Content(file))]

---------------------------------------------------------------------------
(* Raw comparison: src/verify_diff.py *)

\* col.upper() for a column name.
Upper(c) ==
    CHOOSE C \in SeqToSet(TRACKED_COLUMNS) \cup SeqToSet(GEO_COLUMNS) : Lower(C) = c

\* rec of lines 89-143 for a decoded line.
RawRecord(feat) ==
    LET props == IF "properties" \in DOMAIN feat THEN feat.properties ELSE EmptyDict
        coords == Coords(feat)
        val(col) == PyOr(Get(props, col), Get(props, Upper(col)))
    IN [c \in (SeqToSet(COMPARE_COLUMNS) \cup {"address_point_id"}) |->
          CASE c = "longitude" -> Coordinate(coords, 1)
            [] c = "latitude" -> Coordinate(coords, 2)
            [] c = "address_point_id" -> _parse_int(Get(props, "ADDRESS_POINT_ID"))
            [] c \in {"lo_num", "hi_num"} -> _parse_int(val(c))
            [] OTHER -> _clean_str(val(c))]

RECURSIVE LoadRaw(_, _)
\* The loop of lines 65-145: records[aid] = rec, line after line.
LoadRaw(file, records) ==
    IF file = << >> THEN records
    ELSE LET line == Head(file)
             rec == RawRecord(line.feat)
         IN IF line.kind # "feature" \/ rec["address_point_id"] = None
            THEN LoadRaw(Tail(file), records)
            ELSE LoadRaw(Tail(file), (rec["address_point_id"] :> rec) @@ records)

\* load_raw_snapshot: the records of a file by entity key.
load_raw_snapshot(file) == LoadRaw(file, EmptyDict)

\* load_raw_snapshot tabulated over the files of the model.
RawOf == [file \in Files \cup DiffFiles |-> load_raw_snapshot(Content(file))]

\* Lines 188-208: whether verify_diff counts column col as changed.
RawDiffers(col, v_old, v_new) ==
    IF /\ col \in {"latitude", "longitude"}
       /\ \/ v_old # None /\ (v_old.u > 180 * Micro \/ v_old.u < -(180 * Micro))
          \/ v_new # None /\ (v_new.u > 180 * Micro \/ v_new.u < -(180 * Micro))
    THEN FALSE
    ELSE IF (EqualsZero(v_old) /\ v_new = None) \/ (v_old = None /\ EqualsZero(v_new))
    THEN FALSE
    ELSE v_old # v_new /\ PyStr(v_old) # PyStr(v_new)

\* raw_added, raw_removed and raw_modified of lines 172-211.
raw_added(raw_old, raw_new) == DOMAIN raw_new \ DOMAIN raw_old

raw_removed(raw_old, raw_new) == DOMAIN raw_old \ DOMAIN raw_new

raw_modified(raw_old, raw_new) ==
    {aid \in DOMAIN raw_new \cap DOMAIN raw_old :
        \E i \in 1..Len(COMPARE_COLUMNS) :
            RawDiffers(COMPARE_COLUMNS[i], raw_old[aid][COMPARE_COLUMNS[i]],
                       raw_new[aid][COMPARE_COLUMNS[i]])}

---------------------------------------------------------------------------
(* Paths *)

\* A path: a directory and a base name; base name n stands for
\* "addresses-n.geojson".
Paths == [dir : {"data", "tmp"}, base : 1..MaxSnapshots]

\* os.path.basename(filepath)
Basename(filepath) == filepath.base

\* The paths a call is made with: any path whose base name is recorded, and
\* the paths of one base name that is not (file names are only ever tested
\* for equality, so one unrecorded name stands for all of them).
CallPaths(snaps) ==
    LET recorded == {s.filename : s \in snaps}
        fresh == {b \in 1..MaxSnapshots : b \notin recorded}
    IN {p \in Paths :
          \/ p.base \in recorded
          \/ p.base \in fresh /\ \A b \in fresh : p.base <= b}

---------------------------------------------------------------------------
(* State *)

VARIABLES
    snapshots,      \* committed rows of table snapshots:
                    \* [id, downloaded, row_count, filename]
    addresses,      \* committed rows of table addresses
    pc,             \* where import_geojson stands
    filename,       \* its local filename
    prev,           \* its local prev
    curr_id,        \* its local curr_id
    tx_snapshots,   \* table snapshots as its open transaction sees it
    tx_addresses,   \* table addresses as its open transaction sees it
    staging,        \* temporary table staging_addresses: a sequence of rows
    row_count,      \* its local row_count
    lines,          \* the file it read (its lines, by catalogue place)
    pre,            \* the committed store when it was called
    ret,            \* what the last call returned: an id, Raised, or None before any
    raw,            \* by snapshot id, what load_raw_snapshot reads from its file
                    \* (kept where the raw comparison is made, empty elsewhere;
                    \* the file itself where its lines are compared)
    diff,           \* what the last call of compute_diff returned, None before any
    out,            \* what the last command of run.py printed, returned and
                    \* wrote, or what the last call of get_active_addresses
                    \* returned; None when an ingest or compute_diff came after
    other           \* the locals of a call of import_geojson made by another
                    \* process, on its own connection; None when there is none

vars == << snapshots, addresses, pc, filename, prev, curr_id, tx_snapshots,
           tx_addresses, staging, row_count, lines, pre, ret, raw, diff, out,
           other >>

EmptyStore == [snapshots |-> {}, addresses |-> {}]

Init ==
    /\ snapshots = {}
    /\ addresses = {}
    /\ pc = "idle"
    /\ filename = 0
    /\ prev = None
    /\ curr_id = 0
    /\ tx_snapshots = {}
    /\ tx_addresses = {}
    /\ staging = << >>
    /\ row_count = 0
    /\ lines = << >>
    /\ pre = EmptyStore
    /\ ret = None
    /\ raw = EmptyDict
    /\ diff = None
    /\ out = None
    /\ other = None

---------------------------------------------------------------------------
(* Version store: the SQL statements *)

\* Mutant: the already-imported check finds nothing.
ExistingSnapshots_NoCheck(snaps, fname) == {}

\* Mutant: only the latest snapshot is looked at.
ExistingSnapshots_Latest(snaps, fname) ==
    {s \in snaps : s.filename = fname /\ \A t \in snaps : t.id <= s.id}

\* SELECT id FROM snapshots WHERE filename = ?
ExistingSnapshots(snaps, fname) == {s \in snaps : s.filename = fname}

SetMax(S) == CHOOSE m \in S : \A x \in S : x <= m

\* Mutant: SELECT MIN(id) FROM snapshots.
MaxSnapshotId_First(snaps) ==
    IF snaps = {} THEN None
    ELSE JInt(CHOOSE m \in {s.id : s \in snaps} : \A s \in snaps : m <= s.id)

\* SELECT MAX(id) FROM snapshots: NULL on an empty table.
MaxSnapshotId(snaps) ==
    IF snaps = {} THEN None ELSE JInt(SetMax({s.id : s \in snaps}))

\* The rowid an INTEGER PRIMARY KEY AUTOINCREMENT insert gets: one more than
\* the largest ever committed (no snapshot is ever deleted, and a rolled
\* back insert rolls sqlite_sequence back with it).
NextSnapshotId(snaps) ==
    IF snaps = {} THEN 1 ELSE SetMax({s.id : s \in snaps}) + 1

\* datetime.now().isoformat() of line 134, as the rank of the reading among
\* the recorded ones: the wall clock is taken to have moved on since every
\* recorded download, and only the order of readings is kept.
Now(snaps) ==
    IF snaps = {} THEN 1 ELSE SetMax({s.downloaded : s \in snaps}) + 1

\* Mutant: a = b of SQL, which is not true of two NULLs.
SqlIs_Equals(a, b) == a # None /\ b # None /\ a = b

\* a IS b of SQL: equality with NULL IS NULL true.
SqlIs(a, b) == a = b

\* Mutant: any staged row of the key matches.
match_condition_KeyOnly(a, s) == TRUE

\* match_condition: (addresses.c IS s.c) over compare_cols.
match_condition(a, s) ==
    \A c \in CompareColumns : SqlIs(a[c], s[c])

\* Mutant: the new version is written as ending at the snapshot before.
Version_EndsAtPrevious(row, lo, hi) ==
    row @@ ("min_snapshot_id" :> lo) @@ ("max_snapshot_id" :> hi - 1)

\* A staged row as a row of addresses valid over [lo, hi].
Version(row, lo, hi) ==
    row @@ ("min_snapshot_id" :> lo) @@ ("max_snapshot_id" :> hi)

\* Mutant: the UPDATE without WHERE max_snapshot_id = prev.
ExtendValidity_AnyVersion(addrs, staged, prevId, currId) ==
    { IF \E i \in 1..Len(staged) :
               /\ staged[i]["address_point_id"] = a["address_point_id"]
               /\ match_condition(a, staged[i])
      THEN [a EXCEPT !["max_snapshot_id"] = currId]
      ELSE a : a \in addrs }

\* Mutant: the UPDATE without its EXISTS clause.
ExtendValidity_All(addrs, staged, prevId, currId) ==
    { IF a.max_snapshot_id = prevId
      THEN [a EXCEPT !["max_snapshot_id"] = currId]
      ELSE a : a \in addrs }

\* Mutant: the UPDATE also reaches the versions that ended one snapshot
\* before the previous one.
ExtendValidity_Ended(addrs, staged, prevId, currId) ==
    { IF /\ a.max_snapshot_id \in {prevId - 1, prevId}
         /\ \E i \in 1..Len(staged) :
               /\ staged[i]["address_point_id"] = a["address_point_id"]
               /\ match_condition(a, staged[i])
      THEN [a EXCEPT !["max_snapshot_id"] = currId]
      ELSE a : a \in addrs }

\* Mutant: with nothing staged, the UPDATE keeps every version alive.
ExtendValidity_KeepOnEmpty(addrs, staged, prevId, currId) ==
    { IF /\ a.max_snapshot_id = prevId
         /\ \/ staged = << >>
            \/ \E i \in 1..Len(staged) :
                  /\ staged[i]["address_point_id"] = a["address_point_id"]
                  /\ match_condition(a, staged[i])
      THEN [a EXCEPT !["max_snapshot_id"] = currId]
      ELSE a : a \in addrs }

\* UPDATE addresses SET max_snapshot_id = curr WHERE max_snapshot_id = prev
\* AND EXISTS (a staged row of the same key matching it).
ExtendValidity(addrs, staged, prevId, currId) ==
    { IF /\ a.max_snapshot_id = prevId
         /\ \E i \in 1..Len(staged) :
               /\ staged[i]["address_point_id"] = a["address_point_id"]
               /\ match_condition(a, staged[i])
      THEN [a EXCEPT !["max_snapshot_id"] = currId]
      ELSE a : a \in addrs }

\* Mutant: the subquery looks for the previous snapshot id.
InsertFilterId_Prev(prevId, currId) == prevId

\* The snapshot id the INSERT's subquery looks for: address_point_id NOT IN
\* (SELECT address_point_id FROM addresses WHERE max_snapshot_id = curr).
InsertFilterId(prevId, currId) == currId

\* Mutant: the INSERT without its NOT IN clause.
RowsToInsert_Unfiltered(addrs, staged, prevId, currId) == 1..Len(staged)

\* The staged rows (by position) the INSERT ... SELECT of lines 271-278
\* selects.
RowsToInsert(addrs, staged, prevId, currId) ==
    LET reached == { a["address_point_id"] :
                a \in {x \in addrs : x.max_snapshot_id = InsertFilterId(prevId, currId)} }
    IN { i \in 1..Len(staged) : staged[i]["address_point_id"] \notin reached }

\* PRIMARY KEY (address_point_id, min_snapshot_id) holds for inserting the
\* staged rows at ins as versions starting at currId.
PrimaryKeyOk(addrs, staged, ins, currId) ==
    /\ \A i, j \in ins :
          staged[i]["address_point_id"] = staged[j]["address_point_id"] => i = j
    /\ \A i \in ins : \A a \in addrs :
          ~ (/\ a["address_point_id"] = staged[i]["address_point_id"]
             /\ a.min_snapshot_id = currId)

\* Mutant: INSERT OR REPLACE by entity key.
InsertVersions_Replace(addrs, staged, ins, currId) ==
    { a \in addrs :
        a["address_point_id"] \notin {staged[i]["address_point_id"] : i \in ins} }
        \cup { Version(staged[i], currId, currId) : i \in ins }

\* Mutant: the new versions start one snapshot earlier.
InsertVersions_Backdated(addrs, staged, ins, currId) ==
    addrs \cup { Version(staged[i], currId - 1, currId) : i \in ins }

\* INSERT INTO addresses (min_snapshot_id, max_snapshot_id, cols)
\* SELECT curr, curr, cols FROM staging_addresses ...
InsertVersions(addrs, staged, ins, currId) ==
    addrs \cup { Version(staged[i], currId, currId) : i \in ins }

\* Rows valid in snapshot S: min_snapshot_id <= S AND max_snapshot_id >= S.
ActiveAsOf(addrs, S) ==
    {a \in addrs : a.min_snapshot_id <= S /\ a.max_snapshot_id >= S}

\* Mutant: the rows that started at the latest snapshot.
get_active_addresses_Started(snaps, addrs) ==
    IF MaxSnapshotId(snaps) = None THEN {}
    ELSE {a \in addrs : a.min_snapshot_id = MaxSnapshotId(snaps).n}

\* get_active_addresses: the rows whose max_snapshot_id is the latest
\* snapshot id, none when there is no snapshot.
get_active_addresses(snaps, addrs) ==
    IF MaxSnapshotId(snaps) = None THEN {}
    ELSE {a \in addrs : a.max_snapshot_id = MaxSnapshotId(snaps).n}

---------------------------------------------------------------------------
(* Diff engine: src/diff.py *)

\* Mutant: the comparison without the rule that 0 and None are equal.
_values_differ_NoZeroRule(a, b) ==
    IF a = None /\ b = None THEN FALSE
    ELSE IF a = None \/ b = None THEN TRUE
    ELSE PyStr(a) # PyStr(b)

_values_differ(a, b) ==
    IF a = None /\ b = None THEN FALSE
    ELSE IF (EqualsZero(a) /\ b = None) \/ (a = None /\ EqualsZero(b)) THEN FALSE
    ELSE IF a = None \/ b = None THEN TRUE
    ELSE PyStr(a) # PyStr(b)

\* isinstance(val, (int, float)) and abs(val) > 180
_is_projected(val) ==
    \/ val.t = "int" /\ (val.n > 180 \/ val.n < -180)
    \/ val.t = "float" /\ (val.u > 180 * Micro \/ val.u < -(180 * Micro))

\* Mutant: the versions that started after old and are active as of new.
Added_StartedAfterOld(addrs, old, new) ==
    {n \in ActiveAsOf(addrs, new) : n.min_snapshot_id > old}

\* Mutant: the first query without its NOT EXISTS.
Added_AllNew(addrs, old, new) == ActiveAsOf(addrs, new)

\* The first query: rows valid in new with no row of their key valid in old.
Added(addrs, old, new) ==
    {n \in ActiveAsOf(addrs, new) :
        ~ \E o \in ActiveAsOf(addrs, old) :
              o["address_point_id"] = n["address_point_id"]}

\* Mutant: the versions active as of old that ended before new.
Removed_EndedBeforeNew(addrs, old, new) ==
    {o \in ActiveAsOf(addrs, old) : o.max_snapshot_id < new}

\* The second query: rows valid in old with no row of their key valid in new.
Removed(addrs, old, new) ==
    {o \in ActiveAsOf(addrs, old) :
        ~ \E n \in ActiveAsOf(addrs, new) :
              n["address_point_id"] = o["address_point_id"]}

\* Mutant: the join without the validity of n in new.
ModifiedRows_AnyNew(addrs, old, new) ==
    {r \in [o : ActiveAsOf(addrs, old), n : addrs] :
        /\ r.n["address_point_id"] = r.o["address_point_id"]
        /\ r.o.min_snapshot_id # r.n.min_snapshot_id}

\* Mutant: the join without the validity of o in old.
ModifiedRows_AnyOld(addrs, old, new) ==
    {r \in [o : addrs, n : ActiveAsOf(addrs, new)] :
        /\ r.n["address_point_id"] = r.o["address_point_id"]
        /\ r.o.min_snapshot_id # r.n.min_snapshot_id}

\* The third query: the joined rows (o, n) of one key, o valid in old and n
\* valid in new, with different min_snapshot_id. A joined row is kept as
\* the pair of rows it selects its old_ and new_ columns from.
ModifiedRows(addrs, old, new) ==
    {r \in [o : ActiveAsOf(addrs, old), n : ActiveAsOf(addrs, new)] :
        /\ r.n["address_point_id"] = r.o["address_point_id"]
        /\ r.o.min_snapshot_id # r.n.min_snapshot_id}

\* The condition of lines 81-84, under which a joined row is passed over.
Skipped(row) ==
    \/ _is_projected(row.o["latitude"]) \/ _is_projected(row.o["longitude"])
    \/ _is_projected(row.n["latitude"]) \/ _is_projected(row.n["longitude"])
    \/ _values_differ(row.o["latitude"], row.n["latitude"])
    \/ _values_differ(row.o["longitude"], row.n["longitude"])

\* The change entries of a joined row over the given columns, in their order.
ChangesOver(row, cols) ==
    SelectSeq([i \in 1..Len(cols) |->
                  [field |-> cols[i], old |-> row.o[cols[i]], new |-> row.n[cols[i]]]],
              LAMBDA e : _values_differ(e.old, e.new))

\* changes of lines 87-98: over COMPARE_COLUMNS but latitude and longitude.
Changes(row) ==
    ChangesOver(row, SelectSeq(COMPARE_COLUMNS,
                               LAMBDA c : c \notin {"latitude", "longitude"}))

\* The entry of lines 100-107 for a joined row with the given changes.
ModifiedEntry(row, changes) ==
    [address_point_id |-> row.o["address_point_id"],
     address_full |->
        PyOr(PyOr(row.n["address_full"], row.o["address_full"]), JStr("")),
     municipality_name |->
        PyOr(PyOr(row.n["municipality_name"], row.o["municipality_name"]), JStr("")),
     latitude |-> row.n["latitude"],
     longitude |-> row.n["longitude"],
     changes |-> changes]

\* Mutant: no row is passed over and every compared column is looked at.
Modified_Unguarded(addrs, old, new) ==
    { [row |-> r, entry |-> ModifiedEntry(r, ChangesOver(r, COMPARE_COLUMNS))] :
        r \in {x \in ModifiedRows(addrs, old, new) :
                  ChangesOver(x, COMPARE_COLUMNS) # << >>} }

\* Mutant: an entry is appended whether or not it has changes.
Modified_KeepsEmpty(addrs, old, new) ==
    { [row |-> r, entry |-> ModifiedEntry(r, Changes(r))] :
        r \in {x \in ModifiedRows(addrs, old, new) : ~ Skipped(x)} }

\* modified of lines 73-107. The list is kept as the set of its entries,
\* each with the joined row it was built from: SQL fixes no order of the
\* rows, and two rows may give entries that are equal.
Modified(addrs, old, new) ==
    { [row |-> r, entry |-> ModifiedEntry(r, Changes(r))] :
        r \in {x \in ModifiedRows(addrs, old, new) :
                  ~ Skipped(x) /\ Changes(x) # << >>} }

\* The dict compute_diff returns.
compute_diff(addrs, old_snapshot_id, new_snapshot_id) ==
    [old_snapshot_id |-> old_snapshot_id,
     new_snapshot_id |-> new_snapshot_id,
     added |-> Added(addrs, old_snapshot_id, new_snapshot_id),
     removed |-> Removed(addrs, old_snapshot_id, new_snapshot_id),
     modified |-> Modified(addrs, old_snapshot_id, new_snapshot_id)]

---------------------------------------------------------------------------
(* Transactions of the sqlite3 connection *)

\* Mutant: the sqlite3 module before Python 3.6.
ImplicitCommitBeforeDDL_Legacy == TRUE

\* Whether sqlite3 commits the open transaction before a DDL statement
\* (DROP TABLE, CREATE TABLE, CREATE INDEX). The program uses f-strings, so
\* it runs on Python 3.6 or later, where it does not.
ImplicitCommitBeforeDDL == FALSE

\* What is committed after a DDL statement run with `working` pending.
AfterDDL(committed, working) ==
    IF ImplicitCommitBeforeDDL THEN working ELSE committed

\* Mutant: the pending work is committed on the way out.
AfterException_Commits(committed, working) == working

\* What is committed once an exception has left import_geojson: the
\* connection is never committed, and closing it drops the transaction.
AfterException(committed, working) == committed

---------------------------------------------------------------------------
(* import_geojson *)

\* Lines 116-125: the file name is already recorded; return its id.
AlreadyImported(filepath) ==
    /\ pc = "idle"
    /\ ExistingSnapshots(snapshots, Basename(filepath)) # {}
    /\ filename' = Basename(filepath)
    /\ ret' = JInt((CHOOSE s \in ExistingSnapshots(snapshots, Basename(filepath)) : TRUE).id)
    /\ pre' = [snapshots |-> snapshots, addresses |-> addresses]
    /\ diff' = None
    /\ out' = None
    /\ UNCHANGED << snapshots, addresses, pc, prev, curr_id, tx_snapshots,
                    tx_addresses, staging, row_count, lines, raw, other >>

\* Lines 116-137: read prev, insert the snapshot record (which opens the
\* transaction).
Begin(filepath) ==
    /\ pc = "idle"
    /\ ExistingSnapshots(snapshots, Basename(filepath)) = {}
    /\ NextSnapshotId(snapshots) <= MaxSnapshots
    /\ filename' = Basename(filepath)
    /\ prev' = MaxSnapshotId(snapshots)
    /\ curr_id' = NextSnapshotId(snapshots)
    /\ tx_snapshots' = snapshots \cup
            {[id |-> NextSnapshotId(snapshots), downloaded |-> Now(snapshots),
              row_count |-> 0, filename |-> Basename(filepath)]}
    /\ tx_addresses' = addresses
    /\ pre' = [snapshots |-> snapshots, addresses |-> addresses]
    /\ pc' = "begun"
    /\ ret' = None
    /\ diff' = None
    /\ out' = None
    /\ UNCHANGED << snapshots, addresses, staging, row_count, lines, raw, other >>

\* The table addresses after the UPDATE of lines 254-262 (untouched by a
\* first import), given the staged rows.
Extended(rows) ==
    IF prev = None THEN tx_addresses
    ELSE ExtendValidity(tx_addresses, rows, prev.n, curr_id)

\* Mutant: the bulk insert of a first import keeps one row per key.
ToInsert_FirstPerKey(extended, rows) ==
    IF prev = None
    THEN {i \in 1..Len(rows) :
            \A j \in 1..(i - 1) :
                rows[j]["address_point_id"] # rows[i]["address_point_id"]}
    ELSE RowsToInsert(extended, rows, prev.n, curr_id)

\* The staged rows (by position) that lines 235-238 or 271-278 insert,
\* given the table after the UPDATE.
ToInsert(extended, rows) ==
    IF prev = None THEN 1..Len(rows)
    ELSE RowsToInsert(extended, rows, prev.n, curr_id)

\* Lines 139-281: create the staging table, read the file and stage its
\* rows, then bulk insert (first import) or extend and insert (delta).
StageAndApply(file) ==
    /\ pc = "begun"
    /\ Readable(file)
    /\ Parses(file)
    /\ \E rows \in {StagedOf[file]} : \E extended \in {Extended(rows)} :
       \E ins \in {ToInsert(extended, rows)} :
          /\ PrimaryKeyOk(extended, rows, ins, curr_id)
          /\ staging' = rows
          /\ row_count' = Len(rows)
          /\ tx_addresses' = InsertVersions(extended, rows, ins, curr_id)
    /\ lines' = file
    /\ snapshots' = AfterDDL(snapshots, tx_snapshots)
    /\ addresses' = AfterDDL(addresses, tx_addresses)
    /\ pc' = "applied"
    /\ UNCHANGED << filename, prev, curr_id, tx_snapshots, pre, ret, raw, other, diff, out >>

\* The connection is gone: its locals, its transaction, its temporary table.
Closed ==
    /\ pc' = "idle"
    /\ prev' = None
    /\ curr_id' = 0
    /\ tx_snapshots' = {}
    /\ tx_addresses' = {}
    /\ staging' = << >>
    /\ row_count' = 0
    /\ lines' = << >>

\* Lines 235-238, 271-278: the INSERT violates the primary key; nothing
\* catches sqlite3.IntegrityError, which reaches the caller.
IntegrityError(file) ==
    /\ pc = "begun"
    /\ \E rows \in {StagedOf[file]} : \E extended \in {Extended(rows)} :
       \E ins \in {ToInsert(extended, rows)} :
          ~ PrimaryKeyOk(extended, rows, ins, curr_id)
    /\ snapshots' = AfterException(AfterDDL(snapshots, tx_snapshots), tx_snapshots)
    /\ addresses' = AfterException(AfterDDL(addresses, tx_addresses), tx_addresses)
    /\ ret' = Raised("IntegrityError")
    /\ Closed
    /\ UNCHANGED << filename, pre, raw, other, diff, out >>

\* Lines 170-171: a line of the file is not UTF-8; reading it raises
\* UnicodeDecodeError, which nothing catches.
UnicodeDecodeError(file) ==
    /\ pc = "begun"
    /\ ~ Readable(file)
    /\ snapshots' = AfterException(AfterDDL(snapshots, tx_snapshots), tx_snapshots)
    /\ addresses' = AfterException(AfterDDL(addresses, tx_addresses), tx_addresses)
    /\ ret' = Raised("UnicodeDecodeError")
    /\ Closed
    /\ UNCHANGED << filename, pre, raw, other, diff, out >>

\* Line 183: a record of the file has a null geometry; nothing catches the
\* AttributeError.
AttributeError(file) ==
    /\ pc = "begun"
    /\ Readable(file)
    /\ ~ Parses(file)
    /\ snapshots' = AfterException(AfterDDL(snapshots, tx_snapshots), tx_snapshots)
    /\ addresses' = AfterException(AfterDDL(addresses, tx_addresses), tx_addresses)
    /\ ret' = Raised("AttributeError")
    /\ Closed
    /\ UNCHANGED << filename, pre, raw, other, diff, out >>

\* Any other exception between the snapshot insert and the commit (the file
\* cannot be opened or read, the disk is full, ...) reaches the caller too.
OtherError ==
    /\ pc \in {"begun", "applied"}
    /\ snapshots' = AfterException(snapshots, tx_snapshots)
    /\ addresses' = AfterException(addresses, tx_addresses)
    /\ ret' = Raised("OSError")
    /\ Closed
    /\ UNCHANGED << filename, pre, raw, other, diff, out >>

\* Mutant: the UPDATE without its WHERE clause.
SetRowCount_Everywhere(snaps, id, n) ==
    { [s EXCEPT !.row_count = n] : s \in snaps }

\* Mutant: the UPDATE is left out.
SetRowCount_NoUpdate(snaps, id, n) == snaps

\* UPDATE snapshots SET row_count = ? WHERE id = ?
SetRowCount(snaps, id, n) ==
    { IF s.id = id THEN [s EXCEPT !.row_count = n] ELSE s : s \in snaps }

\* Lines 283-288: record the row count, drop the staging table, commit.
Commit ==
    /\ pc = "applied"
    /\ snapshots' = SetRowCount(tx_snapshots, curr_id, row_count)
    /\ addresses' = tx_addresses
    /\ tx_snapshots' = SetRowCount(tx_snapshots, curr_id, row_count)
    /\ staging' = << >>
    /\ pc' = "done"
    /\ UNCHANGED << filename, prev, curr_id, tx_addresses, row_count, lines, pre,
                    ret, diff, out, other >>

\* The file of the snapshot that commits stays where verify_diff looks for
\* the raw data of a snapshot.
KeepFile == raw' = (curr_id :> RawOf[lines]) @@ raw

\* The file of the snapshot that commits, kept as it is.
KeepLines == raw' = (curr_id :> lines) @@ raw

\* Lines 289-292: close the connection and return curr_id.
Return ==
    /\ pc = "done"
    /\ ret' = JInt(curr_id)
    /\ Closed
    /\ UNCHANGED << snapshots, addresses, filename, pre, raw, other, diff, out >>

\* The base name of the file of the other process's call: a name that no
\* call of this process is made with.
OtherName == MaxSnapshots + 1

\* Lines 116-128 in the other process: the file name is not recorded; read
\* prev. Reading takes no lock.
OtherReads(file) ==
    /\ other = None
    /\ ExistingSnapshots(snapshots, OtherName) = {}
    /\ other' = [pc |-> "read", filename |-> OtherName,
                 prev |-> MaxSnapshotId(snapshots), curr_id |-> 0, lines |-> file]
    /\ UNCHANGED << snapshots, addresses, pc, filename, prev, curr_id, tx_snapshots,
                    tx_addresses, staging, row_count, lines, pre, ret, raw, diff, out >>

\* This process holds the write lock of the database from its snapshot
\* insert until it commits or rolls back.
WriteLocked == pc \in {"begun", "applied"}

\* Lines 131-288 in the other process, once the write lock is free: insert
\* the snapshot record, stage the file, bulk insert or extend and insert
\* with the prev it read, record the row count and commit. This process
\* cannot write in between, so the transaction is one step.
OtherWrites ==
    /\ other # None
    /\ other.pc = "read"
    /\ ~ WriteLocked
    /\ NextSnapshotId(snapshots) <= MaxSnapshots
    /\ LET id == NextSnapshotId(snapshots)
           rows == StagedOf[other.lines]
           extended == IF other.prev = None THEN addresses
                       ELSE ExtendValidity(addresses, rows, other.prev.n, id)
           ins == IF other.prev = None THEN 1..Len(rows)
                  ELSE RowsToInsert(extended, rows, other.prev.n, id)
       IN /\ PrimaryKeyOk(extended, rows, ins, id)
          /\ snapshots' = snapshots \cup
                  {[id |-> id, downloaded |-> Now(snapshots),
                    row_count |-> Len(rows), filename |-> other.filename]}
          /\ addresses' = InsertVersions(extended, rows, ins, id)
          /\ raw' = (id :> other.lines) @@ raw
          /\ other' = [other EXCEPT !.pc = "done", !.curr_id = id]
    /\ UNCHANGED << pc, filename, prev, curr_id, tx_snapshots, tx_addresses,
                    staging, row_count, lines, pre, ret, diff, out >>

\* Line 131 in the other process while this one holds the write lock: the
\* insert waits (OtherWrites, later) or, after the connection's timeout,
\* raises sqlite3.OperationalError (database is locked).
OtherLocked ==
    /\ other # None
    /\ other.pc = "read"
    /\ WriteLocked
    /\ other' = [other EXCEPT !.pc = "raised"]
    /\ UNCHANGED << snapshots, addresses, pc, filename, prev, curr_id, tx_snapshots,
                    tx_addresses, staging, row_count, lines, pre, ret, raw, diff, out >>

\* Mutant: compute_diff deletes the versions it reports as removed.
ComputeDiff_Prunes(old, new) ==
    /\ pc = "idle"
    /\ diff' = compute_diff(addresses, old, new)
    /\ out' = None
    /\ addresses' = addresses \ Removed(addresses, old, new)
    /\ UNCHANGED << snapshots, pc, filename, prev, curr_id, tx_snapshots,
                    tx_addresses, staging, row_count, lines, pre, ret, raw, other >>

\* compute_diff(old, new) of src/diff.py on its own connection, which sees
\* the committed tables; run.py calls it with ids of recorded snapshots,
\* between ingests.
ComputeDiff(old, new) ==
    /\ pc = "idle"
    /\ diff' = compute_diff(addresses, old, new)
    /\ out' = None
    /\ UNCHANGED << snapshots, addresses, pc, filename, prev, curr_id,
                    tx_snapshots, tx_addresses, staging, row_count, lines, pre,
                    ret, raw, other >>

\* get_active_addresses() of src/db.py on its own connection, which sees
\* the committed tables; the conflation tool calls it between ingests.
GetActiveAddresses ==
    /\ pc = "idle"
    /\ out' = [command |-> "get_active_addresses",
               returned |-> get_active_addresses(snapshots, addresses)]
    /\ diff' = None
    /\ UNCHANGED << snapshots, addresses, pc, filename, prev, curr_id,
                    tx_snapshots, tx_addresses, staging, row_count, lines, pre,
                    ret, raw, other >>

\* The rows of snapshots by downloaded, latest first, n at most.
RECURSIVE LatestFirst(_, _)
LatestFirst(snaps, n) ==
    IF n = 0 \/ snaps = {} THEN << >>
    ELSE LET s == CHOOSE x \in snaps : \A y \in snaps : y.downloaded <= x.downloaded
         IN << s >> \o LatestFirst(snaps \ {s}, n - 1)

Reversed(s) == [i \in 1..Len(s) |-> s[Len(s) + 1 - i]]

\* SELECT * FROM snapshots ORDER BY downloaded DESC LIMIT n, reversed.
get_latest_snapshots(snaps, n) == Reversed(LatestFirst(snaps, n))

NeedTwoSnapshots == "Need at least 2 snapshots to diff. Import more data first."

\* Mutant: the diff command gives up on an empty history only.
InsufficientHistory_Empty(latest) == Len(latest) < 1

\* if len(snapshots) < 2
InsufficientHistory(latest) == Len(latest) < 2

\* What a command that found too few snapshots leaves.
GaveUp(command) ==
    [command |-> command, printed |-> NeedTwoSnapshots, returned |-> None,
     compute_diff_calls |-> 0, report |-> None]

\* The body of cmd_diff, and of cmd_report around it, on the snapshots that
\* get_latest_snapshots(2) returned: print and return None, or call
\* compute_diff on the two and (the report command) write their report.
\* Unpacking snapshots[0], snapshots[1] of a shorter list raises IndexError.
DiffCommand(command, latest) ==
    IF InsufficientHistory(latest)
    THEN /\ out' = GaveUp(command)
         /\ diff' = diff
    ELSE IF Len(latest) < 2
    THEN /\ out' = [GaveUp(command) EXCEPT !.printed = "",
                                           !.returned = Raised("IndexError")]
         /\ diff' = diff
    ELSE /\ diff' = compute_diff(addresses, latest[1].id, latest[2].id)
         /\ out' = [command |-> command,
                    printed |-> "Diffing snapshot",
                    returned |-> [t |-> "tuple", old |-> latest[1].id,
                                  new |-> latest[2].id],
                    compute_diff_calls |-> 1,
                    report |-> IF command = "report"
                               THEN [t |-> "report", old |-> latest[1].id,
                                     new |-> latest[2].id]
                               ELSE None]

\* run.py diff
cmd_diff ==
    /\ pc = "idle"
    /\ DiffCommand("diff", get_latest_snapshots(snapshots, 2))
    /\ UNCHANGED << snapshots, addresses, pc, filename, prev, curr_id,
                    tx_snapshots, tx_addresses, staging, row_count, lines, pre,
                    ret, raw, other >>

\* run.py report
cmd_report ==
    /\ pc = "idle"
    /\ DiffCommand("report", get_latest_snapshots(snapshots, 2))
    /\ UNCHANGED << snapshots, addresses, pc, filename, prev, curr_id,
                    tx_snapshots, tx_addresses, staging, row_count, lines, pre,
                    ret, raw, other >>

Next ==
    \/ \E filepath \in CallPaths(snapshots) : AlreadyImported(filepath)
    \/ \E filepath \in CallPaths(snapshots) : Begin(filepath)
    \/ \E file \in Files : StageAndApply(file)
    \/ \E file \in Files : IntegrityError(file)
    \/ OtherError
    \/ Commit /\ UNCHANGED raw
    \/ Return

Spec == Init /\ [][Next]_vars

\* The diff engine over the stores that ingests build: ingests of new files
\* that run to their commit (a short-circuited or failed ingest leaves the
\* store as it was), over the files that are diffed.
DiffNext ==
    \/ \E filepath \in CallPaths(snapshots) : Begin(filepath)
    \/ \E file \in DiffFiles : StageAndApply(file)
    \/ Commit /\ KeepFile
    \/ Return
    \/ \E old, new \in {s.id : s \in snapshots} : ComputeDiff(old, new)
    \/ cmd_diff
    \/ cmd_report
    \/ GetActiveAddresses

DiffSpec == Init /\ [][DiffNext]_vars

\* The staging loop over files with lines that give no row: ingests of new
\* files with distinct entity keys, with nothing failing but the file.
ParseNext ==
    \/ \E filepath \in CallPaths(snapshots) : Begin(filepath)
    \/ \E file \in ParseFiles : StageAndApply(file)
    \/ \E file \in ParseFiles : UnicodeDecodeError(file)
    \/ \E file \in ParseFiles : AttributeError(file)
    \/ Commit /\ UNCHANGED raw
    \/ Return

ParseSpec == Init /\ [][ParseNext]_vars

\* Ingests and diffs over the files of one record in its several forms.
StringNext ==
    \/ \E filepath \in CallPaths(snapshots) : Begin(filepath)
    \/ \E file \in StringFiles : StageAndApply(file)
    \/ Commit /\ KeepLines
    \/ Return
    \/ \E old, new \in {s.id : s \in snapshots} : ComputeDiff(old, new)

StringSpec == Init /\ [][StringNext]_vars

\* Ingests and diffs over the files of the histories that are compared.
HistoryNext ==
    \/ \E filepath \in CallPaths(snapshots) : Begin(filepath)
    \/ \E file \in HistoryFiles : StageAndApply(file)
    \/ \E file \in HistoryFiles : IntegrityError(file)
    \/ Commit /\ KeepLines
    \/ Return
    \/ \E old, new \in {s.id : s \in snapshots} : ComputeDiff(old, new)

HistorySpec == Init /\ [][HistoryNext]_vars

\* Ingests by this process, one after the other, and one ingest by another
\* process at any time.
OverlapNext ==
    \/ \E filepath \in CallPaths(snapshots) : Begin(filepath)
    \/ \E file \in OverlapFiles : StageAndApply(file)
    \/ Commit /\ KeepLines
    \/ Return
    \/ \E file \in OverlapFiles : OtherReads(file)
    \/ OtherWrites
    \/ OtherLocked

OverlapSpec == Init /\ [][OverlapNext]_vars

---------------------------------------------------------------------------
(* Vocabulary of the properties *)

Key(a) == a["address_point_id"]

\* The rows the call in progress staged, from the file it read.
Staged == StagedOf[lines]

Keys(rows) == {Key(rows[i]) : i \in 1..Len(rows)}

DistinctKeys(rows) ==
    \A i, j \in 1..Len(rows) : Key(rows[i]) = Key(rows[j]) => i = j

\* An ingest that had a previous snapshot has committed.
DeltaDone == pc = "done" /\ prev # None

\* The row-versions active as of the previous snapshot, before the ingest.
PrevActive == ActiveAsOf(pre.addresses, prev.n)

\* Field-by-field identity of a row-version and a staged row over every
\* staged column: tracked fields, coordinates and overflow bag.
Identical(v, r) == \A c \in CompareColumns : v[c] = r[c]

\* The tracked fields and coordinates (the overflow bag left out).
TrackedFields == CompareColumns \ {"extra"}

SameTracked(v, r) == \A c \in TrackedFields : v[c] = r[c]

SnapshotIds == 1..(MaxSnapshots + 1)

Extend(v, id) == [v EXCEPT !["max_snapshot_id"] = id]

---------------------------------------------------------------------------
(* C1..C10 *)

\* C1: a call of import_geojson with a file name that is already recorded
\* returns the id of the existing snapshot at once and changes nothing: the
\* snapshots, the row-versions and their ranges and fields stay as they are,
\* and no transaction is left open.
C1_ReimportIsNoOp ==
    [][ (pc = "idle" /\ \E s \in snapshots : s.filename = filename')
          => /\ snapshots' = snapshots
             /\ addresses' = addresses
             /\ pc' = "idle"
             /\ \E s \in snapshots : s.filename = filename' /\ ret' = JInt(s.id)
             /\ tx_snapshots' = tx_snapshots /\ tx_addresses' = tx_addresses ]_vars

C1_Witness ==
    /\ pc = "idle"
    /\ ret.t = "int"
    /\ pre = [snapshots |-> snapshots, addresses |-> addresses]
    /\ \E s \in snapshots : s.filename = filename /\ ret = JInt(s.id)
    /\ Cardinality(snapshots) >= 2
    /\ addresses # {}

\* C2: for every entity key and every snapshot id S, at most one
\* row-version of the key has min_snapshot <= S <= max_snapshot, in the
\* committed table and in the table as the open transaction sees it.
C2_NoOverlap ==
    \A addrs \in {addresses, tx_addresses} : \A S \in SnapshotIds :
        \A a, b \in ActiveAsOf(addrs, S) : Key(a) = Key(b) => a = b

\* Two versions of one key are stored after ingesting a file that repeats
\* an entity key.
C2_Witness ==
    /\ pc = "done"
    /\ ~ DistinctKeys(Staged)
    /\ \E a, b \in addresses : a # b /\ Key(a) = Key(b)

C4_RollbackOnFailure ==
    (pc = "idle" /\ ret.t = "raised") =>
        /\ snapshots = pre.snapshots
        /\ addresses = pre.addresses
        /\ ExistingSnapshots(snapshots, filename) = {}

\* A primary-key violation on the insert of a delta import.
C4_Witness ==
    /\ pc = "idle"
    /\ ret = Raised("IntegrityError")
    /\ pre.snapshots # {}
    /\ pre.addresses # {}

\* C5: after an ingest of snapshot S whose staged rows have pairwise
\* distinct keys, the row-versions active as of S have exactly the staged
\* keys, one per key, each with the tracked fields and coordinates of the
\* staged row of its key.
C5_StoreReproducesSnapshot ==
    pc = "done" =>
        LET rows == Staged
            act == ActiveAsOf(addresses, curr_id)
        IN DistinctKeys(rows) =>
              /\ {Key(a) : a \in act} = Keys(rows)
              /\ \A a, b \in act : Key(a) = Key(b) => a = b
              /\ \A a \in act : \E i \in 1..Len(rows) :
                    Key(rows[i]) = Key(a) /\ SameTracked(a, rows[i])

\* A delta import of two entities, one extended and one inserted.
C5_Witness ==
    /\ DeltaDone
    /\ DistinctKeys(Staged)
    /\ Len(Staged) = 2
    /\ \E a \in ActiveAsOf(addresses, curr_id) : a.min_snapshot_id < curr_id
    /\ \E a \in ActiveAsOf(addresses, curr_id) : a.min_snapshot_id = curr_id

\* C6: no step deletes a committed row-version or changes anything of it
\* but max_snapshot, which never decreases; the delta does the same to the
\* table inside the transaction.
C6_AppendOnly ==
    [][ /\ \A a \in addresses : \E b \in addresses' :
              /\ Extend(b, a.max_snapshot_id) = a
              /\ b.max_snapshot_id >= a.max_snapshot_id
        /\ (pc = "begun" /\ pc' = "applied") =>
              \A a \in tx_addresses : \E b \in tx_addresses' :
                 /\ Extend(b, a.max_snapshot_id) = a
                 /\ b.max_snapshot_id >= a.max_snapshot_id ]_vars

\* An ingest has extended an existing version and committed.
C6_Witness ==
    /\ DeltaDone
    /\ \E a \in pre.addresses : a \notin addresses /\ Extend(a, curr_id) \in addresses
    /\ \E a \in pre.addresses : a \in addresses

\* C7: when a staged row is identical, field by field, to the row-version
\* of its key active as of the previous snapshot, the ingest raises that
\* version's max_snapshot to the new id and inserts no version for the key:
\* the version active as of the new snapshot is the one created earlier.
C7_UnchangedPath ==
    DeltaDone =>
        LET rows == Staged
        IN \A i \in 1..Len(rows) : \A v \in PrevActive :
            (Key(v) = Key(rows[i]) /\ Identical(v, rows[i])) =>
                /\ Extend(v, curr_id) \in addresses
                /\ \A a \in addresses : Key(a) = Key(v) => a.min_snapshot_id # curr_id
                /\ {a \in ActiveAsOf(addresses, curr_id) : Key(a) = Key(v)}
                      = {Extend(v, curr_id)}

C7_Witness ==
    /\ DeltaDone
    /\ \E i \in 1..Len(Staged) : \E v \in PrevActive :
          /\ Key(v) = Key(Staged[i]) /\ Identical(v, Staged[i])
          /\ v.min_snapshot_id < prev.n

C9_Claimed ==
    DeltaDone =>
        LET rows == Staged
        IN \A i \in 1..Len(rows) : \A v \in PrevActive :
            (Key(v) = Key(rows[i]) /\ ~ SameTracked(v, rows[i])) =>
                /\ {a \in addresses : Key(a) = Key(v) /\ a.min_snapshot_id = curr_id}
                      = {Version(rows[i], curr_id, curr_id)}
                /\ v \in addresses
                /\ v.max_snapshot_id = prev.n
                /\ v \notin ActiveAsOf(addresses, curr_id)

\* C10: an entity active as of the previous snapshot with no staged row is
\* left alone: its version keeps max_snapshot at the previous id, and the
\* entity is not active as of the new snapshot.
C10_AbsentPath ==
    DeltaDone =>
        LET staged_keys == Keys(Staged)
        IN \A v \in PrevActive : Key(v) \notin staged_keys =>
            /\ v \in addresses
            /\ v.max_snapshot_id = prev.n
            /\ \A a \in ActiveAsOf(addresses, curr_id) : Key(a) # Key(v)

\* An entity went absent while another one stayed.
C10_Witness ==
    /\ DeltaDone
    /\ \E v \in PrevActive : Key(v) \notin Keys(Staged)
    /\ \E v \in PrevActive : Key(v) \in Keys(Staged)

---------------------------------------------------------------------------
(* C11..C20 *)

\* The row-versions the ingest in progress has inserted: those of the table
\* whose primary key (entity key, min_snapshot) the table did not hold when
\* the ingest was called.
InsertedBy(addrs) ==
    {a \in addrs : \A b \in pre.addresses :
        ~ (Key(b) = Key(a) /\ b.min_snapshot_id = a.min_snapshot_id)}

\* C11: every row-version has min_snapshot <= max_snapshot, committed or
\* inside the transaction, and when an ingest commits, every row-version it
\* has inserted has min_snapshot = max_snapshot = the id of its snapshot.
C11_RangeOrdered ==
    /\ \A addrs \in {addresses, tx_addresses} : \A a \in addrs :
          a.min_snapshot_id <= a.max_snapshot_id
    /\ pc = "done" =>
          \A a \in InsertedBy(addresses) :
             a.min_snapshot_id = curr_id /\ a.max_snapshot_id = curr_id

\* A delta import has committed an inserted version next to an extended one.
C11_Witness ==
    /\ DeltaDone
    /\ InsertedBy(addresses) # {}
    /\ \E a \in addresses : a.min_snapshot_id < a.max_snapshot_id

\* C12: a committed snapshot record (id, download timestamp, file name, row
\* count) is never changed or deleted; the commit of an ingest adds exactly
\* one record, whose id is greater than every id recorded before, and no
\* other step adds any.
C12_SnapshotsImmutable ==
    [][ /\ \A s \in snapshots : s \in snapshots'
        /\ IF pc = "applied" /\ pc' = "done"
           THEN \E s \in snapshots' :
                   /\ s \notin snapshots
                   /\ snapshots' = snapshots \cup {s}
                   /\ s.id = curr_id
                   /\ \A t \in snapshots : s.id > t.id
           ELSE snapshots' = snapshots ]_vars

\* Three ingests have committed, the last one of them with rows.
C12_Witness ==
    /\ pc = "done"
    /\ Cardinality(snapshots) = MaxSnapshots
    /\ \E s \in snapshots : s.id = curr_id /\ s.row_count > 0
    /\ \E s \in snapshots : s.id < curr_id /\ s.row_count # row_count

\* compute_diff has returned: its arguments and the keys of its collections.
Diffed == diff # None

DiffOld == diff.old_snapshot_id

DiffNew == diff.new_snapshot_id

AddedKeys == {Key(r) : r \in diff.added}

RemovedKeys == {Key(r) : r \in diff.removed}

ModifiedKeys == {e.entry.address_point_id : e \in diff.modified}

\* The row-versions whose range holds snapshot S, and their keys.
Holding(S) ==
    {a \in addresses : a.min_snapshot_id <= S /\ S <= a.max_snapshot_id}

KeysAt(S) == {Key(a) : a \in Holding(S)}

\* C13 as claimed: the keys of added, removed and modified that
\* compute_diff(old, new) returns are those verify_diff computes from the raw
\* contents of the two snapshots: keys only in new, keys only in old, and
\* common keys with a compared field that differs.
C13_Claimed ==
    Diffed =>
        /\ AddedKeys = raw_added(raw[DiffOld], raw[DiffNew])
        /\ RemovedKeys = raw_removed(raw[DiffOld], raw[DiffNew])
        /\ ModifiedKeys = raw_modified(raw[DiffOld], raw[DiffNew])

\* C14: added holds exactly the row-versions active as of new whose entity
\* key has no row-version active as of old, each as the full stored row.
C14_Added ==
    Diffed =>
        diff.added = {n \in Holding(DiffNew) : Key(n) \notin KeysAt(DiffOld)}

\* An entity was added between old and new while another one stayed.
C14_Witness ==
    /\ Diffed
    /\ diff.added # {}
    /\ \E n \in Holding(DiffNew) : n \notin diff.added

\* C15: removed holds exactly the row-versions active as of old whose
\* entity key has no row-version active as of new, each as the full stored
\* row.
C15_Removed ==
    Diffed =>
        diff.removed = {o \in Holding(DiffOld) : Key(o) \notin KeysAt(DiffNew)}

\* An entity was removed between old and new while another one stayed.
C15_Witness ==
    /\ Diffed
    /\ diff.removed # {}
    /\ \E o \in Holding(DiffOld) : o \notin diff.removed

\* The pairs (o, n) of row-versions of one key, o active as of old and n as
\* of new, that are two versions.
VersionPairs ==
    {r \in [o : Holding(DiffOld), n : Holding(DiffNew)] :
        Key(r.o) = Key(r.n) /\ r.o # r.n}

\* The entries of modified for a key.
EntriesOf(k) == {e \in diff.modified : e.entry.address_point_id = k}

\* The equivalence rules of the diff: two unset values are the same, a
\* numeric zero and an unset value are the same, and otherwise two values
\* are the same when their string forms are.
IsZero(a) == a = JInt(0) \/ a = JFloat(0)

SameValue(a, b) ==
    \/ a = None /\ b = None
    \/ IsZero(a) /\ b = None
    \/ a = None /\ IsZero(b)
    \/ a # None /\ b # None /\ PyStr(a) = PyStr(b)

\* C16: every entry of modified is for a key that is active as of old and as
\* of new through two different row-versions, no key has two entries, and
\* each change entry holds its field's value in the version active as of
\* old and in the version active as of new, two values that are not the
\* same under the equivalence rules.
C16_ModifiedSound ==
    Diffed =>
        /\ \A e \in diff.modified : \E r \in VersionPairs :
              /\ Key(r.o) = e.entry.address_point_id
              /\ \A i \in 1..Len(e.entry.changes) :
                    LET c == e.entry.changes[i]
                    IN /\ c.field \in SeqToSet(COMPARE_COLUMNS)
                       /\ c.old = r.o[c.field]
                       /\ c.new = r.n[c.field]
                       /\ ~ SameValue(c.old, c.new)
        /\ \A e, f \in diff.modified :
              e.entry.address_point_id = f.entry.address_point_id => e = f

\* A diff over two snapshots that are not adjacent has an entry in modified.
C16_Witness ==
    /\ Diffed
    /\ DiffOld + 1 < DiffNew
    /\ \E e \in diff.modified : Len(e.entry.changes) >= 1

Magnitude(a) == IF a.u < 0 THEN -a.u ELSE a.u

\* Within valid geographic bounds: unset, or of magnitude 180 at most.
InBounds(a) == a = None \/ Magnitude(a) <= 180 * Micro

\* Two coordinates a hundredth of a degree apart or more.
FarApart(a, b) ==
    /\ a # None /\ b # None
    /\ (a.u - b.u >= Micro \div 100 \/ b.u - a.u >= Micro \div 100)

\* C17 as claimed: when an entity is active as of old and of new through
\* different versions, its four coordinates are within bounds and its
\* latitude or longitude differs beyond the tolerance, modified has an entry
\* for it with the change entry {field, old, new} of that coordinate.
C17_Claimed ==
    Diffed =>
        \A r \in VersionPairs : \A c \in {"latitude", "longitude"} :
            (/\ InBounds(r.o["latitude"]) /\ InBounds(r.o["longitude"])
             /\ InBounds(r.n["latitude"]) /\ InBounds(r.n["longitude"])
             /\ FarApart(r.o[c], r.n[c]))
            => \E e \in EntriesOf(Key(r.o)) :
                  \E i \in 1..Len(e.entry.changes) :
                      e.entry.changes[i] = [field |-> c, old |-> r.o[c], new |-> r.n[c]]

\* C18: an entity active as of old and of new through different versions
\* whose compared fields are all the same under the equivalence rules is in
\* none of added, removed and modified.
C18_NoDifferenceNoEntry ==
    Diffed =>
        \A r \in VersionPairs :
            (\A i \in 1..Len(COMPARE_COLUMNS) :
                 SameValue(r.o[COMPARE_COLUMNS[i]], r.n[COMPARE_COLUMNS[i]]))
            => Key(r.o) \notin (AddedKeys \cup RemovedKeys \cup ModifiedKeys)

\* The two versions differ in the overflow bag alone.
C18_Witness ==
    /\ Diffed
    /\ \E r \in VersionPairs :
          /\ \A c \in TrackedFields : r.o[c] = r.n[c]
          /\ r.o["extra"] # r.n["extra"]

\* C19: for every tracked field, when the version active as of old holds 0
\* and the version active as of new is unset, or the reverse, or both are
\* unset, no change entry of modified names that field.
C19_ZeroEqualsUnset ==
    Diffed =>
        \A r \in VersionPairs : \A c \in SeqToSet(compare_cols) \ {"extra"} :
            (\/ IsZero(r.o[c]) /\ r.n[c] = None
             \/ r.o[c] = None /\ IsZero(r.n[c])
             \/ r.o[c] = None /\ r.n[c] = None)
            => \A e \in EntriesOf(Key(r.o)) :
                  \A i \in 1..Len(e.entry.changes) : e.entry.changes[i].field # c

\* An entry of modified for an entity one of whose fields went from unset
\* to 0, and one for an entity one of whose fields went from 0 to unset.
C19_Witness ==
    /\ Diffed
    /\ \E r \in VersionPairs :
          /\ EntriesOf(Key(r.o)) # {}
          /\ \/ r.o["hi_num"] = None /\ r.n["hi_num"] = JInt(0)
             \/ r.o["hi_num"] = JInt(0) /\ r.n["hi_num"] = None

\* C20: for an entity whose old or new latitude or longitude has a magnitude
\* above 180, no change entry of modified names latitude or longitude.
C20_ProjectionGuard ==
    Diffed =>
        \A r \in VersionPairs :
            (\/ ~ InBounds(r.o["latitude"]) \/ ~ InBounds(r.o["longitude"])
             \/ ~ InBounds(r.n["latitude"]) \/ ~ InBounds(r.n["longitude"]))
            => \A e \in EntriesOf(Key(r.o)) :
                  \A i \in 1..Len(e.entry.changes) :
                      e.entry.changes[i].field \notin {"latitude", "longitude"}

\* An entity went from a longitude within bounds to one above 180.
C20_Witness ==
    /\ Diffed
    /\ \E r \in VersionPairs :
          InBounds(r.o["longitude"]) /\ ~ InBounds(r.n["longitude"])


---------------------------------------------------------------------------
(* Claims C21..C30 *)

\* The compared columns that are not coordinates.
NonCoordinateColumns == SeqToSet(COMPARE_COLUMNS) \ {"latitude", "longitude"}

\* A coordinate of the pair of versions is outside the geographic bounds.
OutOfBounds(r) ==
    \/ ~ InBounds(r.o["latitude"]) \/ ~ InBounds(r.o["longitude"])
    \/ ~ InBounds(r.n["latitude"]) \/ ~ InBounds(r.n["longitude"])

\* C21 as claimed: for old < new, when an entity is active as of old and of
\* new through different versions, one of its four coordinates is outside the geographic
\* bounds and a compared field that is not a coordinate differs, modified
\* has an entry for the entity with the change entry of that field.
C21_Claimed ==
    (Diffed /\ DiffOld < DiffNew) =>
        \A r \in VersionPairs : \A c \in NonCoordinateColumns :
            (OutOfBounds(r) /\ ~ SameValue(r.o[c], r.n[c]))
            => \E e \in EntriesOf(Key(r.o)) :
                  \E i \in 1..Len(e.entry.changes) :
                      e.entry.changes[i] = [field |-> c, old |-> r.o[c], new |-> r.n[c]]


\* The keys active as of old and as of new that are not in modified.
UnchangedKeys == (KeysAt(DiffOld) \cap KeysAt(DiffNew)) \ ModifiedKeys

\* C22: for old < new, the key sets of added, removed, modified and
\* unchanged are pairwise disjoint and their union is the set of the keys
\* active as of old or as of new.
C22_Completeness ==
    (Diffed /\ DiffOld < DiffNew) =>
        /\ AddedKeys \cap RemovedKeys = {}
        /\ AddedKeys \cap ModifiedKeys = {}
        /\ AddedKeys \cap UnchangedKeys = {}
        /\ RemovedKeys \cap ModifiedKeys = {}
        /\ RemovedKeys \cap UnchangedKeys = {}
        /\ ModifiedKeys \cap UnchangedKeys = {}
        /\ AddedKeys \cup RemovedKeys \cup ModifiedKeys \cup UnchangedKeys
              = KeysAt(DiffOld) \cup KeysAt(DiffNew)

\* A diff from an older to a newer snapshot with an added and a modified
\* entity.
C22_Witness ==
    /\ Diffed
    /\ DiffOld < DiffNew
    /\ AddedKeys # {}
    /\ ModifiedKeys # {}


\* A result of compute_diff with nothing in it.
EmptyDiff(d) == d.added = {} /\ d.removed = {} /\ d.modified = {}

\* C23: compute_diff(S, S) returns empty added, removed and modified: the
\* call that was made with old = new returned them empty, and so would a
\* call for any recorded snapshot id on the committed store of any state.
C23_SelfDiffEmpty ==
    /\ (Diffed /\ DiffOld = DiffNew) => EmptyDiff(diff)
    /\ \A s \in snapshots : EmptyDiff(compute_diff(addresses, s.id, s.id))

\* A snapshot was diffed against itself, on a store where one of its
\* entities has an earlier version that differs.
C23_Witness ==
    /\ Diffed
    /\ DiffOld = DiffNew
    /\ \E a \in Holding(DiffOld) : \E b \in addresses :
          Key(a) = Key(b) /\ b.max_snapshot_id < DiffOld /\ ~ SameTracked(a, b)


Records(file) == {i \in 1..Len(file) : Content(file)[i].kind # "other"}

\* The records whose line does not decode or that give no integer entity
\* key.
Dropped(file) == {i \in Records(file) : ~ LineYieldsRow(Content(file)[i])}

\* The keys of the records of a file that are not dropped.
KeptKeys(file) ==
    {ParseFeature(Content(file)[i].feat)["address_point_id"] :
        i \in Records(file) \ Dropped(file)}

\* C25 as claimed: no ingest aborts on a record that cannot be decoded or
\* gives no entity key: the call raises no decoding error, the records that
\* are not dropped are staged, each has a version active as of the new
\* snapshot, and the snapshot is committed.
C25_Claimed ==
    /\ ret # Raised("UnicodeDecodeError")
    /\ pc = "applied" =>
          /\ Keys(staging) = KeptKeys(lines)
          /\ Len(staging) = Cardinality(Records(lines) \ Dropped(lines))
    /\ pc \in {"applied", "done"} =>
          \A k \in KeptKeys(lines) :
              \E a \in ActiveAsOf(tx_addresses, curr_id) : Key(a) = k
    /\ pc = "done" => \E s \in snapshots : s.id = curr_id


\* The count of skipped records that the value a call returned carries,
\* None when it carries none: import_geojson returns the snapshot id alone,
\* and what it prints is the count of staged rows ("Imported n rows as
\* snapshot id").
SkippedIn(r) == IF "skipped" \in DOMAIN r THEN JInt(r.skipped) ELSE None

\* C26 as claimed: when an ingest returns, what it hands to its caller
\* carries the number of records it skipped, which is the number of records
\* of the file that were dropped during staging.
C26_Claimed ==
    [][(pc = "done" /\ pc' = "idle")
          => SkippedIn(ret') = JInt(Cardinality(Dropped(lines)))]_vars


\* The row-versions whose range holds the maximum snapshot id, none when
\* there is no snapshot.
ActiveAsOfLatest ==
    IF snapshots = {} THEN {} ELSE Holding(SetMax({s.id : s \in snapshots}))

\* C27: no row-version has a max_snapshot above the maximum snapshot id,
\* and get_active_addresses gives exactly the row-versions with
\* min_snapshot <= L <= max_snapshot for L the maximum snapshot id (none
\* without a snapshot), on the committed store of every state and in what
\* the call that was made returned.
C27_ActiveAsOfLatest ==
    /\ \A a \in addresses : \E s \in snapshots : a.max_snapshot_id <= s.id
    /\ get_active_addresses(snapshots, addresses) = ActiveAsOfLatest
    /\ (out # None /\ out.command = "get_active_addresses")
          => out.returned = ActiveAsOfLatest

\* get_active_addresses returned a version that started before the latest
\* snapshot, on a store with a version that ended before it.
C27_Witness ==
    /\ out # None
    /\ out.command = "get_active_addresses"
    /\ \E a \in out.returned : \E s \in snapshots : a.min_snapshot_id < s.id
    /\ \E a \in addresses : a \notin out.returned


\* A step in which compute_diff, a command that calls it, or
\* get_active_addresses returned: the result that is held changes, and not
\* to none as when an ingest starts.
ReaderReturned ==
    /\ diff' # diff \/ out' # out
    /\ diff' # None \/ out' # None

\* C28: a step of compute_diff or of get_active_addresses leaves the
\* snapshots and the row-versions as they were, committed and as any open
\* transaction sees them.
C28_ReadersDoNotWrite ==
    [][ReaderReturned =>
          /\ snapshots' = snapshots
          /\ addresses' = addresses
          /\ tx_snapshots' = tx_snapshots
          /\ tx_addresses' = tx_addresses]_vars

\* compute_diff returned for a newer old and an older new snapshot, with
\* versions to report, on a store of three snapshots.
C28_Witness ==
    /\ Diffed
    /\ DiffOld > DiffNew
    /\ diff.added # {} \/ diff.removed # {}
    /\ Cardinality(snapshots) = 3


\* No record of the file gives an entity key.
ZeroUsable(file) == Records(file) = Dropped(file)

\* The snapshot before the one being ingested has row count 0.
AfterZeroRows == \E s \in pre.snapshots : s.id = prev.n /\ s.row_count = 0

C30_RowCountIsStaged ==
    pc = "done" =>
        \E s \in snapshots :
            /\ s.id = curr_id
            /\ s.row_count = Cardinality(Records(lines) \ Dropped(lines))

\* An ingest has committed a file with a record that was dropped and one
\* that was staged.
C30_Witness ==
    /\ pc = "done"
    /\ \E s \in snapshots : s.id = curr_id /\ s.row_count > 0
    /\ Dropped(lines) # {}


---------------------------------------------------------------------------
(* C31..C39 *)

Numbers(line) ==
    IF "geometry" \notin DOMAIN line.feat \/ line.feat.geometry = None THEN << >>
    ELSE IF "coordinates" \notin DOMAIN line.feat.geometry THEN << >>
    ELSE LET c == line.feat.geometry.coordinates
         IN IF c # << >> /\ c[1].t = "list" THEN c[1].items ELSE c

\* The records of a file with an entity key whose geometry gives fewer
\* than two numbers.
ShortGeometry(file) ==
    {i \in Records(file) \ Dropped(file) : Len(Numbers(Content(file)[i])) < 2}

\* C32 as claimed: no ingest fails on a record whose geometry is missing or
\* whose coordinates are missing, empty or a single number: the call does
\* not raise on it, and the record is staged under its key with longitude
\* unset when there is no first number and latitude unset.
C32_Claimed ==
    /\ ret # Raised("AttributeError")
    /\ pc = "applied" =>
          \A i \in ShortGeometry(lines) :
              LET line == Content(lines)[i]
              IN \E j \in 1..Len(staging) :
                    /\ Key(staging[j]) = ParseFeature(line.feat)["address_point_id"]
                    /\ staging[j]["latitude"] = None
                    /\ Len(Numbers(line)) = 0 => staging[j]["longitude"] = None
                    /\ \E a \in ActiveAsOf(tx_addresses, curr_id) :
                          Key(a) = Key(staging[j])


StringColumns == SeqToSet(TRACKED_COLUMNS) \ IntColumns

\* The forms of an unset string: null or absent, "", and the token "None".
UnsetForm(props, C) == Get(props, C) \in {None, JStr(""), JStr("None")}

\* Two records that differ, if at all, in the form that unset string
\* tracked fields take.
SameButForm(f, g) ==
    /\ Coords(f) = Coords(g)
    /\ \A C \in DOMAIN f.properties \cup DOMAIN g.properties :
          \/ Get(f.properties, C) = Get(g.properties, C)
          \/ C \in StringColumns /\ UnsetForm(f.properties, C)
                                 /\ UnsetForm(g.properties, C)

\* The keys whose records in the files of snapshots S and T are the same
\* but for the form of unset strings.
FormOnly(S, T) ==
    {ParseFeature(Content(raw[S])[i].feat)["address_point_id"] :
        i \in {i \in 1..Len(raw[S]) : \E j \in 1..Len(raw[T]) :
                 /\ Key(ParseFeature(Content(raw[S])[i].feat))
                       = Key(ParseFeature(Content(raw[T])[j].feat))
                 /\ SameButForm(Content(raw[S])[i].feat, Content(raw[T])[j].feat)}}

\* C33: when the record of an entity in the file of a snapshot and in the
\* file of the previous one differ only in the form of unset string tracked
\* fields (empty, "None", null or absent), the ingest has extended the
\* previously active version to the new snapshot and inserted none for the
\* key, and the diff of the two snapshots has the key in none of added,
\* removed and modified.
C33_StringNormalization ==
    /\ DeltaDone =>
          \A k \in FormOnly(prev.n, curr_id) :
              /\ \E v \in PrevActive : Key(v) = k /\ Extend(v, curr_id) \in addresses
              /\ \A a \in addresses : Key(a) = k => a.min_snapshot_id # curr_id
    /\ (Diffed /\ DiffNew = DiffOld + 1) =>
          \A k \in FormOnly(DiffOld, DiffNew) :
              k \notin (AddedKeys \cup RemovedKeys \cup ModifiedKeys)

\* Two consecutive snapshots were diffed whose files hold a record of the
\* same entity with LINEAR_NAME_DIR as "None" in one and absent or null in
\* the other.
C33_Witness ==
    /\ Diffed
    /\ DiffNew = DiffOld + 1
    /\ FormOnly(DiffOld, DiffNew) # {}
    /\ raw[DiffOld] = << 20 >>
    /\ raw[DiffNew] \in { << 21 >>, << 22 >> }


\* What the store holds as of snapshot S: the row-versions active as of S,
\* each with its key, the snapshot it started at and its field values.
AsOf(addrs, S) == {Extend(a, S) : a \in ActiveAsOf(addrs, S)}

\* C34: no step changes what the store holds as of a committed snapshot:
\* for every snapshot S on record, the row-versions active as of S (keys,
\* field values) are after the step what they were before it.
C34_HistoryStable ==
    [][ \A s \in snapshots : AsOf(addresses', s.id) = AsOf(addresses, s.id) ]_vars

\* Three snapshots that each hold something else, the first one with an
\* entity that is still active as of the third.
C34_Witness ==
    /\ pc = "done"
    /\ Cardinality(snapshots) = MaxSnapshots
    /\ \E a \in addresses : a.min_snapshot_id = 1 /\ a.max_snapshot_id = MaxSnapshots
    /\ AsOf(addresses, 1) # {}
    /\ {Extend(a, 0) : a \in AsOf(addresses, 1)} # {Extend(a, 0) : a \in AsOf(addresses, 2)}
    /\ {Extend(a, 0) : a \in AsOf(addresses, 2)} # {Extend(a, 0) : a \in AsOf(addresses, 3)}


\* The entity keys of the rows staged from the file of snapshot S.
KeysOfFile(S) == Keys(StagedOf[raw[S]])

\* C35: an ingest leaves alone every row-version that ended before the
\* previous snapshot; a staged row whose entity has versions but none active
\* as of the previous snapshot gets a version over [new id, new id]; and no
\* row-version is active as of a snapshot whose file had no row of its
\* entity.
C35_NeverReactivated ==
    /\ (pc \in {"applied", "done"} /\ prev # None) =>
          \A a \in pre.addresses : a.max_snapshot_id < prev.n => a \in tx_addresses
    /\ DeltaDone =>
          \A i \in 1..Len(Staged) :
              (/\ \E a \in pre.addresses : Key(a) = Key(Staged[i])
               /\ \A a \in PrevActive : Key(a) # Key(Staged[i]))
              => Version(Staged[i], curr_id, curr_id) \in addresses
    /\ \A S \in DOMAIN raw : \A a \in ActiveAsOf(addresses, S) : Key(a) \in KeysOfFile(S)

\* Entity 1 was in the first file, in no row of the second, and is back in
\* the third with the field values it had in the first.
C35_Witness ==
    /\ pc = "done"
    /\ curr_id = 3
    /\ DOMAIN raw = 1..3
    /\ Len(Staged) = 1
    /\ Key(Staged[1]) \notin KeysOfFile(2)
    /\ \E a \in addresses :
          /\ a.max_snapshot_id = 1
          /\ Identical(a, Staged[1])
          /\ Key(a) = Key(Staged[1])


\* The table addresses after the ingests of the given files, one after the
\* other into an empty store, as snapshots 1, 2, ...; ok is whether every
\* one of them committed.
RECURSIVE StoreAfter(_)
StoreAfter(files) ==
    IF files = << >> THEN [ok |-> TRUE, addrs |-> {}]
    ELSE LET n == Len(files)
             before == StoreAfter(SubSeq(files, 1, n - 1))
             rows == StagedOf[files[n]]
             extended == IF n = 1 THEN before.addrs
                         ELSE ExtendValidity(before.addrs, rows, n - 1, n)
             ins == IF n = 1 THEN 1..Len(rows)
                    ELSE RowsToInsert(extended, rows, n - 1, n)
         IN [ok |-> before.ok /\ PrimaryKeyOk(extended, rows, ins, n),
             addrs |-> InsertVersions(extended, rows, ins, n)]

\* What a diff says: the added keys, the removed keys, and the modified
\* keys each with its change entries.
Said(d) ==
    [added |-> {Key(r) : r \in d.added},
     removed |-> {Key(r) : r \in d.removed},
     modified |-> {[address_point_id |-> e.entry.address_point_id,
                    changes |-> e.entry.changes] : e \in d.modified}]

\* C36 as claimed: the diff of snapshots 1 and 3 says what it says in every
\* other history of three ingests with the same first and third file,
\* whatever the second file is.
C36_Claimed ==
    (Diffed /\ DiffOld = 1 /\ DiffNew = 3 /\ DOMAIN raw = 1..3) =>
        \A mid \in HistoryFiles :
            LET alt == StoreAfter(<< raw[1], mid, raw[3] >>)
            IN alt.ok => Said(compute_diff(alt.addrs, 1, 3)) = Said(diff)


\* The row_count on record for snapshot id.
RowCountOf(snaps, id) == (CHOOSE s \in snaps : s.id = id).row_count

\* The commit of the ingest in progress records a row_count that is the
\* number of row-versions active as of its snapshot.
CommitsActiveCount ==
    (pc = "applied" /\ pc' = "done") =>
        RowCountOf(snapshots', curr_id) = Cardinality(ActiveAsOf(addresses', curr_id))

\* C37 as claimed: at the moment an ingest commits, whatever its file, the
\* row_count of its snapshot is the number of row-versions active as of it.
C37_Claimed == [][CommitsActiveCount]_vars

\* C37, amended: at the moment an ingest commits whose staged rows have
\* pairwise distinct entity keys, the row_count of its snapshot is the
\* number of row-versions active as of it.
C37_RowCountIsActive == [][DistinctKeys(Staged) => CommitsActiveCount]_vars

\* A delta import of two entities has committed, where the snapshot before
\* had another number of them.
C37_Witness ==
    /\ DeltaDone
    /\ DistinctKeys(Staged)
    /\ RowCountOf(snapshots, curr_id) = 2
    /\ Cardinality(PrevActive) # 2
    /\ \E a \in ActiveAsOf(addresses, curr_id) : a.min_snapshot_id < curr_id


\* C38: no two snapshot records have the same file name, in the committed
\* table and in the table as the open transaction sees it.
C38_FilenamesUnique ==
    \A snaps \in {snapshots, tx_snapshots} : \A s, t \in snaps :
        s.filename = t.filename => s = t

\* With every snapshot of the bound on record, a call for the file of the
\* first one (under any directory) has returned its id.
C38_Witness ==
    /\ pc = "idle"
    /\ Cardinality(snapshots) = MaxSnapshots
    /\ pre.snapshots = snapshots
    /\ ret = JInt(1)
    /\ \E s \in snapshots : s.id = 1 /\ s.filename = filename


\* The committed store has at most one row-version of a key active as of a
\* snapshot id, and the row-versions active as of a committed snapshot are
\* the rows staged from its file: the same keys, each with the tracked
\* fields and coordinates of its row.
Consistent ==
    /\ \A S \in SnapshotIds : \A a, b \in ActiveAsOf(addresses, S) :
          Key(a) = Key(b) => a = b
    /\ \A S \in DOMAIN raw :
          LET rows == StagedOf[raw[S]]
              act == ActiveAsOf(addresses, S)
          IN /\ {Key(a) : a \in act} = Keys(rows)
             /\ \A a \in act : \E i \in 1..Len(rows) :
                   Key(rows[i]) = Key(a) /\ SameTracked(a, rows[i])

\* The other process has committed, and this process committed a snapshot
\* between the other's reading of prev and its snapshot insert.
Overlapped ==
    /\ other # None
    /\ other.pc = "done"
    /\ other.prev # (IF other.curr_id = 1 THEN None ELSE JInt(other.curr_id - 1))

\* C39 as claimed: when the other process read its already-imported check
\* and its prev before this process committed, and both have committed, the
\* store is consistent.
C39_Claimed == Overlapped => Consistent

\* C39, amended: as long as no call has committed a snapshot between
\* another call's reading of prev and its snapshot insert, the store is
\* consistent.
C39_Serialized == ~ Overlapped => Consistent

\* Three snapshots, the second one committed by the other process, which
\* read after the first was committed and extended a version of it; this
\* process has committed the third.
C39_Witness ==
    /\ ~ Overlapped
    /\ other # None
    /\ other.pc = "done"
    /\ other.curr_id = 2
    /\ pc = "done"
    /\ curr_id = 3
    /\ \E a \in addresses : a.min_snapshot_id = 1 /\ a.max_snapshot_id >= 2

====
